---- MODULE Spec2Model ----
(***************************************************************************)
(* Moment Catcher (src/app.py): the upload handler and the MomentCatcher   *)
(* pipeline it drives: feature extraction, scoring, peak selection,        *)
(* conversion of peaks to moments, and trailer assembly.                   *)
(*                                                                         *)
(* Numbers.  Python floats are modelled as exact rationals:                *)
(*   - the frame rate is kept in quarter frames per second (fps4 = 4*fps), *)
(*     so int(fps*2) and int(fps*0.1) truncate as in the code;             *)
(*   - seconds given as parameters (duration, moment_duration,             *)
(*     max_duration) are integers;                                         *)
(*   - times computed by the code (start_time, end_time, total_duration)   *)
(*     are kept in ticks of 1/(2*fps) seconds, in which peak/fps and       *)
(*     moment_duration/2 are both integers (8*peak and moment_duration*fps4*)
(*     ticks).                                                             *)
(* Excitement scores are integers; only their order and the 70th           *)
(* percentile matter to the code after line 146.                           *)
(* Pixel and sample values are not modelled: a feature array is its shape. *)
(***************************************************************************)
EXTENDS Integers, Sequences, FiniteSets, TLC

VARIABLES
    pc,                \* position in upload_video / MomentCatcher
    caller,            \* "upload_video" (HTTP handler) or "api" (method called directly)
    dm_caller,         \* who called detect_moments: "upload_video", "generate_trailer", "api"
    request,           \* the incoming request: "no_file_part", "empty_filename", "ok"
    video,             \* the uploaded file as the decoders see it
    file_exists,       \* os.path.exists(filepath)
    persisted,         \* file.save(filepath) has returned
    clip_open,         \* self.clip (VideoFileClip) is open
    cap_open,          \* cap (cv2.VideoCapture) is open
    subclips_open,     \* number of open sub-clips created by self.clip.subclip
    self_fps4,         \* self.fps, in quarter frames per second
    self_duration,     \* self.duration, seconds
    audio_features,    \* shape of audio_features
    visual_features,   \* shape of visual_features
    excitement_scores, \* excitement_scores
    peaks,             \* peaks (0-based window indices, ascending)
    top_peaks,         \* top_peaks
    moments,           \* self.moments
    h_moments,         \* the local `moments` of upload_video
    num_moments,       \* detect_moments parameter
    moment_duration,   \* detect_moments parameter, seconds
    max_duration,      \* generate_trailer parameter, seconds
    clips,             \* the moments whose sub-clip was appended to `clips`
    total_duration,    \* total_duration, ticks
    output_written,    \* write_videofile produced the output file
    gt_result,         \* return value of generate_trailer: "none", "True", "False"
    error,             \* the exception raised, "none" if none
    response,          \* the JSON response of upload_video
    reported,          \* moments_data of the success response
    detect_calls       \* number of detect_moments invocations in this run

vars == <<pc, caller, dm_caller, request, video, file_exists, persisted, clip_open,
          cap_open, subclips_open, self_fps4, self_duration, audio_features,
          visual_features, excitement_scores, peaks, top_peaks, moments, h_moments,
          num_moments, moment_duration, max_duration, clips, total_duration,
          output_written, gt_result, error, response, reported, detect_calls>>

-----------------------------------------------------------------------------
(* Bounds of the model *)

MaxFrames == 6
MaxSamples == 5
MaxNumMoments == 2
MaxMoments == 3

ScoreValues == {0, 1, 2}
FpsQuarters == {1, 4, 60, 120}       \* 0.25, 1, 15 and 30 frames per second
ScoredFpsQuarters == {1, 2, 6}       \* 0.25, 0.5 and 1.5 frames per second
VideoDurations == {2, 4, 10}         \* seconds
MomentDurations == {0, 3, 6}         \* seconds
TrailerStep == 10                    \* seconds between the drawn moments' starts
TrailerMomentLengths == {5, 10}      \* seconds
TrailerBudgets == {0, 5, 15}         \* seconds

-----------------------------------------------------------------------------
(* Program constants *)

DEFAULT_NUM_MOMENTS == 10
DEFAULT_MOMENT_DURATION == 3
\* variant: a budget of 3 seconds in place of 30
MaxDurationTypo == DEFAULT_MOMENT_DURATION
DEFAULT_MAX_DURATION == 30
HEIGHT_PERCENTILE == 70
AUDIO_COLS == 3
FALLBACK_COLS == 1
VISUAL_COLS == 4
weights == <<3, 2, 1, 2, 1, 1>>      \* tenths: 0.3, 0.2, 0.1, 0.2, 0.1, 0.1

RESP_NONE == "none"
RESP_NO_FILE == "400 No video file provided"
RESP_NO_NAME == "400 No file selected"
RESP_SUCCESS == "200 success"
RESP_FAILED == "500 Failed to generate trailer"
RESP_CRASH == "500 Processing failed"

ERR_OPEN == "OSError: video cannot be opened"
ERR_RANGE == "ValueError: range() arg 3 must not be zero"
ERR_SHAPE == "ValueError: shapes not aligned"
ERR_DISTANCE == "ValueError: distance must be greater or equal to 1"
ERR_RENDER == "IOError: write_videofile failed"

-----------------------------------------------------------------------------
(* Arithmetic helpers *)

Min(a, b) == IF a <= b THEN a ELSE b
Max(a, b) == IF a >= b THEN a ELSE b
Abs(a) == IF a >= 0 THEN a ELSE -a

\* len(range(0, stop, step)) for step > 0
RangeLen(stop, step) == IF stop <= 0 THEN 0 ELSE (stop + step - 1) \div step

\* seconds -> ticks of 1/(2*fps) seconds, for fps = fps4/4
Ticks(s, fps4) == s * 2 * fps4
Secs(s) == Ticks(s, self_fps4)

\* peak / self.fps, in ticks
PeakTime(peak) == 8 * peak

EmptyShape == [rows |-> 0, cols |-> 0]

-----------------------------------------------------------------------------
(* Exceptions: inside upload_video's try block an exception reaches the     *)
(* except clause; raised under a direct method call it propagates to the   *)
(* caller of the method.                                                   *)

RaiseTarget == IF caller = "upload_video" THEN "except" ELSE "done"

-----------------------------------------------------------------------------
(* numpy / scipy operations used by detect_moments *)

x0(x, i) == x[i + 1]                 \* 0-based indexing

\* the orders np.argsort(vals) may return: ascending, ties in any order
ArgsortOrders(vals) ==
    LET n == Len(vals)
    IN  {p \in [1..n -> 1..n] :
            /\ \A i, j \in 1..n : i # j => p[i] # p[j]
            /\ \A i \in 1..(n - 1) : vals[p[i]] <= vals[p[i + 1]]}

\* 10 * np.percentile(x, q) for q a multiple of 10: linear interpolation
\* between the two order statistics around position q/100 * (n - 1)
Percentile10(x, q) ==
    LET n == Len(x)
        sorted == SortSeq(x, LAMBDA a, b : a < b)
        pos10 == (q \div 10) * (n - 1)
        lo == pos10 \div 10
        frac == pos10 % 10
        hi == Min(lo + 1, n - 1)
    IN  10 * x0(sorted, lo) + frac * (x0(sorted, hi) - x0(sorted, lo))

\* scipy _local_maxima_1d: the first index past i at which the plateau ends
RECURSIVE PlateauAhead(_, _, _)
PlateauAhead(x, i, i_ahead) ==
    IF i_ahead < Len(x) - 1 /\ x0(x, i_ahead) = x0(x, i)
    THEN PlateauAhead(x, i, i_ahead + 1)
    ELSE i_ahead

\* scipy _local_maxima_1d: midpoints of all local maxima, first and last
\* sample excluded
RECURSIVE LocalMaxima(_, _, _)
LocalMaxima(x, i, acc) ==
    IF i >= Len(x) - 1 THEN acc
    ELSE IF x0(x, i - 1) < x0(x, i)
         THEN LET i_ahead == PlateauAhead(x, i, i + 1)
              IN  IF x0(x, i_ahead) < x0(x, i)
                  THEN LocalMaxima(x, i_ahead + 1,
                                   Append(acc, (i + (i_ahead - 1)) \div 2))
                  ELSE LocalMaxima(x, i + 1, acc)
         ELSE LocalMaxima(x, i + 1, acc)

\* find_peaks(height=h): keep the maxima with x[peak] >= h (h in tenths)
SelectByHeight(x, cand, h10) ==
    SelectSeq(cand, LAMBDA p : 10 * x0(x, p) >= h10)

\* variant: a distance selection that removes nothing
KeepAll(cand, order, distance, i, keep) == keep

\* scipy _select_by_peak_distance: from the highest priority down, a kept
\* peak removes every other peak closer than `distance`
RECURSIVE SelectByDistance(_, _, _, _, _)
SelectByDistance(cand, order, distance, i, keep) ==
    IF i = 0 THEN keep
    ELSE LET j == order[i]
         IN  IF ~keep[j]
             THEN SelectByDistance(cand, order, distance, i - 1, keep)
             ELSE SelectByDistance(cand, order, distance, i - 1,
                    [k \in DOMAIN keep |->
                        keep[k] /\ (k = j \/ Abs(cand[k] - cand[j]) >= distance)])

RECURSIVE Compress(_, _, _)
Compress(cand, keep, i) ==
    IF i > Len(cand) THEN <<>>
    ELSE IF keep[i] THEN <<cand[i]>> \o Compress(cand, keep, i + 1)
         ELSE Compress(cand, keep, i + 1)

\* signal.find_peaks(x, height=h, distance=d) given the argsort order used
\* by the distance selection
find_peaks(x, h10, distance, order) ==
    LET cand == SelectByHeight(x, LocalMaxima(x, 1, <<>>), h10)
        keep == SelectByDistance(cand, order, distance, Len(cand),
                                 [k \in 1..Len(cand) |-> TRUE])
    IN  Compress(cand, keep, 1)

\* the candidates whose heights the distance selection sorts
HeightCandidates(x, h10) == SelectByHeight(x, LocalMaxima(x, 1, <<>>), h10)

\* Python seq[-k:] for k >= 0: the last k elements, the whole sequence when
\* k = 0 (seq[-0:] is seq[0:]) or k >= len(seq)
NegSlice(seq, k) ==
    IF k = 0 \/ k >= Len(seq) THEN seq
    ELSE SubSeq(seq, Len(seq) - k + 1, Len(seq))

\* lines 162-164: the moment of one peak, times in ticks
Moment(peak) ==
    [start_time |-> Max(0, PeakTime(peak) - moment_duration * self_fps4),
     end_time   |-> Min(Secs(self_duration), PeakTime(peak) + moment_duration * self_fps4),
     score      |-> x0(excitement_scores, peak)]

\* list.sort(key=lambda x: x[0]): stable, ascending by start_time
RECURSIVE InsertByStart(_, _)
InsertByStart(sorted, m) ==
    IF sorted = <<>> THEN <<m>>
    ELSE IF sorted[Len(sorted)].start_time <= m.start_time
         THEN Append(sorted, m)
         ELSE Append(InsertByStart(SubSeq(sorted, 1, Len(sorted) - 1), m),
                     sorted[Len(sorted)])

RECURSIVE SortByStart(_)
SortByStart(ms) ==
    IF ms = <<>> THEN <<>>
    ELSE InsertByStart(SortByStart(SubSeq(ms, 1, Len(ms) - 1)), ms[Len(ms)])

Duration(m) == m.end_time - m.start_time

-----------------------------------------------------------------------------
(* upload_video, lines 213-257 *)

detect_vars == <<audio_features, visual_features, excitement_scores, peaks,
                 top_peaks, moments, num_moments, moment_duration, detect_calls,
                 dm_caller, cap_open>>
trailer_vars == <<clips, total_duration, output_written, gt_result,
                  max_duration, subclips_open>>
handler_vars == <<caller, request, video, file_exists, persisted, h_moments,
                  response, reported>>
catcher_vars == <<clip_open, self_fps4, self_duration>>

\* lines 216-221: the request must carry a named file
Validate ==
    /\ pc = "request"
    /\ IF request = "no_file_part"
       THEN response' = RESP_NO_FILE /\ pc' = "done"
       ELSE IF request = "empty_filename"
            THEN response' = RESP_NO_NAME /\ pc' = "done"
            ELSE response' = response /\ pc' = "save"
    /\ UNCHANGED <<caller, request, video, file_exists, persisted, h_moments,
                   reported, error>>
    /\ UNCHANGED <<detect_vars, trailer_vars, catcher_vars>>

\* lines 224-226: file.save(filepath)
SaveFile ==
    /\ pc = "save"
    /\ file_exists' = TRUE
    /\ persisted' = TRUE
    /\ pc' = "construct"
    /\ UNCHANGED <<caller, request, video, h_moments, response, reported, error>>
    /\ UNCHANGED <<detect_vars, trailer_vars, catcher_vars>>

\* lines 230, 40-45: MomentCatcher(filepath) opens the clip or raises
Construct ==
    /\ pc = "construct"
    /\ IF video.openable
       THEN /\ clip_open' = TRUE
            /\ self_fps4' = video.fps4
            /\ self_duration' = video.duration
            /\ moments' = <<>>
            /\ dm_caller' = "upload_video"
            /\ pc' = "detect"
            /\ error' = error
       ELSE /\ error' = ERR_OPEN
            /\ pc' = RaiseTarget
            /\ UNCHANGED <<clip_open, self_fps4, self_duration, moments, dm_caller>>
    /\ UNCHANGED <<audio_features, visual_features, excitement_scores, peaks,
                   top_peaks, num_moments, moment_duration, detect_calls, cap_open>>
    /\ UNCHANGED <<handler_vars, trailer_vars>>

-----------------------------------------------------------------------------
(* MomentCatcher.detect_moments, lines 124-169 *)

\* lines 124-127: entry; upload_video (line 231) and generate_trailer
\* (line 176) pass no arguments, so the defaults apply
DM_Enter ==
    /\ pc = "detect"
    /\ detect_calls' = detect_calls + 1
    /\ num_moments' = IF dm_caller = "api" THEN num_moments ELSE DEFAULT_NUM_MOMENTS
    /\ moment_duration' = IF dm_caller = "api" THEN moment_duration
                          ELSE DEFAULT_MOMENT_DURATION
    /\ pc' = "extract_audio"
    /\ UNCHANGED <<audio_features, visual_features, excitement_scores, peaks,
                   top_peaks, moments, dm_caller, cap_open, error>>
    /\ UNCHANGED <<handler_vars, trailer_vars, catcher_vars>>

\* lines 47-82: extract_audio_features
ExtractAudio ==
    /\ pc = "extract_audio"
    /\ LET frame_length == self_fps4 \div 40          \* int(self.fps * 0.1)
           hop_length == frame_length \div 2           \* int(frame_length / 2)
           rows == RangeLen(video.n_samples - frame_length, hop_length)
       IN  IF ~video.has_audio
           THEN /\ audio_features' =
                      [rows |-> (self_duration * self_fps4) \div 4,
                       cols |-> FALLBACK_COLS]
                /\ pc' = "extract_visual"
                /\ error' = error
           ELSE IF hop_length = 0
                THEN /\ error' = ERR_RANGE
                     /\ pc' = RaiseTarget
                     /\ audio_features' = audio_features
                ELSE /\ audio_features' =
                           [rows |-> rows,
                            cols |-> IF rows = 0 THEN 0 ELSE AUDIO_COLS]
                     /\ pc' = "extract_visual"
                     /\ error' = error
    /\ UNCHANGED <<visual_features, excitement_scores, peaks, top_peaks, moments,
                   num_moments, moment_duration, detect_calls, dm_caller, cap_open>>
    /\ UNCHANGED <<handler_vars, trailer_vars, catcher_vars>>

\* lines 88-90: cv2.VideoCapture(self.video_path)
VF_Open ==
    /\ pc = "extract_visual"
    /\ cap_open' = TRUE
    /\ visual_features' = EmptyShape
    /\ pc' = "read_frames"
    /\ UNCHANGED <<audio_features, excitement_scores, peaks, top_peaks, moments,
                   num_moments, moment_duration, detect_calls, dm_caller, error>>
    /\ UNCHANGED <<handler_vars, trailer_vars, catcher_vars>>

\* lines 92-119: one frame read and measured
VF_Read ==
    /\ pc = "read_frames"
    /\ visual_features.rows < video.n_frames
    /\ visual_features' = [rows |-> visual_features.rows + 1, cols |-> VISUAL_COLS]
    /\ UNCHANGED <<pc, audio_features, excitement_scores, peaks, top_peaks, moments,
                   num_moments, moment_duration, detect_calls, dm_caller, cap_open,
                   error>>
    /\ UNCHANGED <<handler_vars, trailer_vars, catcher_vars>>

\* lines 93-95, 121-122: end of stream, cap.release()
VF_Release ==
    /\ pc = "read_frames"
    /\ visual_features.rows = video.n_frames
    /\ cap_open' = FALSE
    /\ pc' = "normalize"
    /\ UNCHANGED <<audio_features, visual_features, excitement_scores, peaks,
                   top_peaks, moments, num_moments, moment_duration, detect_calls,
                   dm_caller, error>>
    /\ UNCHANGED <<handler_vars, trailer_vars, catcher_vars>>

\* lines 141-146: np.hstack, fit_transform, np.dot(normalized_features, weights);
\* np.dot raises unless the matrix has as many columns as there are weights
CombinedCols == audio_features.cols + visual_features.cols
MinLen == Min(audio_features.rows, visual_features.rows)

\* lines 133-146
Score ==
    /\ pc = "normalize"
    /\ IF audio_features.rows > 0 /\ visual_features.rows > 0
       THEN IF CombinedCols # Len(weights)
            THEN /\ error' = ERR_SHAPE
                 /\ pc' = RaiseTarget
                 /\ excitement_scores' = excitement_scores
            ELSE /\ excitement_scores' \in [1..MinLen -> ScoreValues]
                 /\ pc' = "find_peaks"
                 /\ error' = error
       ELSE /\ pc' = "dm_return"
            /\ UNCHANGED <<excitement_scores, error>>
    /\ UNCHANGED <<audio_features, visual_features, peaks, top_peaks, moments,
                   num_moments, moment_duration, detect_calls, dm_caller, cap_open>>
    /\ UNCHANGED <<handler_vars, trailer_vars, catcher_vars>>

PeakDistance == (self_fps4 * 2) \div 4           \* int(self.fps * 2)

\* lines 149-154
FindPeaks ==
    /\ pc = "find_peaks"
    /\ IF PeakDistance < 1
       THEN /\ error' = ERR_DISTANCE
            /\ pc' = RaiseTarget
            /\ peaks' = peaks
       ELSE LET h10 == Percentile10(excitement_scores, HEIGHT_PERCENTILE)
                cand == HeightCandidates(excitement_scores, h10)
                heights == [k \in 1..Len(cand) |-> x0(excitement_scores, cand[k])]
            IN  \E order \in ArgsortOrders(heights) :
                  /\ peaks' = find_peaks(excitement_scores, h10, PeakDistance, order)
                  /\ pc' = IF Len(peaks') > 0 THEN "select" ELSE "dm_return"
                  /\ error' = error
    /\ UNCHANGED <<audio_features, visual_features, excitement_scores, top_peaks,
                   moments, num_moments, moment_duration, detect_calls, dm_caller,
                   cap_open>>
    /\ UNCHANGED <<handler_vars, trailer_vars, catcher_vars>>

\* lines 155-157
SelectTop ==
    /\ pc = "select"
    /\ LET peak_scores == [k \in 1..Len(peaks) |-> x0(excitement_scores, peaks[k])]
       IN  \E order \in ArgsortOrders(peak_scores) :
             LET top_indices == NegSlice(order, num_moments)
             IN  top_peaks' = [k \in 1..Len(top_indices) |-> peaks[top_indices[k]]]
    /\ pc' = "convert"
    /\ UNCHANGED <<audio_features, visual_features, excitement_scores, peaks,
                   moments, num_moments, moment_duration, detect_calls, dm_caller,
                   cap_open, error>>
    /\ UNCHANGED <<handler_vars, trailer_vars, catcher_vars>>

\* lines 160-167
ConvertAndSort ==
    /\ pc = "convert"
    /\ moments' = SortByStart([k \in 1..Len(top_peaks) |-> Moment(top_peaks[k])])
    /\ pc' = "dm_return"
    /\ UNCHANGED <<audio_features, visual_features, excitement_scores, peaks,
                   top_peaks, num_moments, moment_duration, detect_calls, dm_caller,
                   cap_open, error>>
    /\ UNCHANGED <<handler_vars, trailer_vars, catcher_vars>>

\* line 169: return self.moments, to line 231, line 176 or the API caller
DM_Return ==
    /\ pc = "dm_return"
    /\ pc' = IF dm_caller = "upload_video" THEN "generate"
             ELSE IF dm_caller = "generate_trailer" THEN "assemble"
             ELSE "done"
    /\ h_moments' = IF dm_caller = "upload_video" THEN moments ELSE h_moments
    /\ UNCHANGED <<caller, request, video, file_exists, persisted, response,
                   reported, error>>
    /\ UNCHANGED <<detect_vars, trailer_vars, catcher_vars>>

-----------------------------------------------------------------------------
(* MomentCatcher.generate_trailer, lines 171-201 *)

\* lines 171-176: entry; detection is run again when self.moments is empty.
\* upload_video (line 237) passes only output_path, so max_duration defaults
GT_Enter ==
    /\ pc = "generate"
    /\ max_duration' = IF caller = "upload_video" THEN DEFAULT_MAX_DURATION
                       ELSE max_duration
    /\ IF moments = <<>>
       THEN pc' = "detect" /\ dm_caller' = "generate_trailer"
       ELSE pc' = "assemble" /\ dm_caller' = dm_caller
    /\ UNCHANGED <<audio_features, visual_features, excitement_scores, peaks,
                   top_peaks, moments, num_moments, moment_duration, detect_calls,
                   cap_open>>
    /\ UNCHANGED <<clips, total_duration, output_written, gt_result, subclips_open>>
    /\ UNCHANGED <<handler_vars, catcher_vars, error>>

\* variant: break only once the total is above the budget
BudgetExceeded(total, budget) == total > budget

\* line 183: if total_duration >= max_duration: break
BudgetReached(total, budget) == total >= budget

\* lines 182-188: the loop over self.moments
RECURSIVE Admit(_, _, _, _, _)
Admit(ms, i, acc, total, budget) ==
    IF i > Len(ms) \/ BudgetReached(total, budget)
    THEN [clips |-> acc, total |-> total]
    ELSE Admit(ms, i + 1, Append(acc, ms[i]), total + Duration(ms[i]), budget)

\* lines 179-188
GT_Assemble ==
    /\ pc = "assemble"
    /\ LET r == Admit(moments, 1, <<>>, 0, Secs(max_duration))
       IN  /\ clips' = r.clips
           /\ total_duration' = r.total
           /\ subclips_open' = Len(r.clips)
    /\ pc' = "after_loop"
    /\ UNCHANGED <<output_written, gt_result, max_duration>>
    /\ UNCHANGED <<handler_vars, detect_vars, catcher_vars, error>>

\* variant: render whatever the loop admitted
AlwaysRender(c) == TRUE

\* line 190: if clips:
HasClips(c) == c # <<>>

\* lines 190-200: concatenate, write_videofile, close the trailer and the
\* sub-clips, return True; write_videofile may raise
GT_Render ==
    /\ pc = "after_loop"
    /\ HasClips(clips)
    /\ IF video.render_ok
       THEN /\ output_written' = TRUE
            /\ subclips_open' = 0
            /\ gt_result' = "True"
            /\ pc' = IF caller = "upload_video" THEN "close" ELSE "done"
            /\ error' = error
       ELSE /\ error' = ERR_RENDER
            /\ pc' = RaiseTarget
            /\ UNCHANGED <<output_written, subclips_open, gt_result>>
    /\ UNCHANGED <<clips, total_duration, max_duration>>
    /\ UNCHANGED <<handler_vars, detect_vars, catcher_vars>>

\* line 201: return False
GT_ReturnFalse ==
    /\ pc = "after_loop"
    /\ ~HasClips(clips)
    /\ gt_result' = "False"
    /\ pc' = IF caller = "upload_video" THEN "close" ELSE "done"
    /\ UNCHANGED <<clips, total_duration, output_written, max_duration,
                   subclips_open>>
    /\ UNCHANGED <<handler_vars, detect_vars, catcher_vars, error>>

-----------------------------------------------------------------------------
(* upload_video, lines 238-255 *)

\* lines 238, 203-206: catcher.close()
Close ==
    /\ pc = "close"
    /\ clip_open' = FALSE
    /\ pc' = "respond"
    /\ UNCHANGED <<self_fps4, self_duration, error>>
    /\ UNCHANGED <<handler_vars, detect_vars, trailer_vars>>

\* lines 240-248: the success response reports the local `moments`
Respond ==
    /\ pc = "respond"
    /\ IF gt_result = "True"
       THEN response' = RESP_SUCCESS /\ reported' = h_moments
       ELSE response' = RESP_FAILED /\ reported' = reported
    /\ pc' = "finally"
    /\ UNCHANGED <<caller, request, video, file_exists, persisted, h_moments, error>>
    /\ UNCHANGED <<detect_vars, trailer_vars, catcher_vars>>

\* lines 250-251: except Exception
Except ==
    /\ pc = "except"
    /\ response' = RESP_CRASH
    /\ pc' = "finally"
    /\ UNCHANGED <<caller, request, video, file_exists, persisted, h_moments,
                   reported, error>>
    /\ UNCHANGED <<detect_vars, trailer_vars, catcher_vars>>

\* variant: the upload is removed only when no exception was raised
CleanupOnSuccessOnly ==
    /\ pc = "finally"
    /\ file_exists' = IF error = "none" THEN FALSE ELSE file_exists
    /\ pc' = "done"
    /\ UNCHANGED <<caller, request, video, persisted, h_moments, response,
                   reported, error>>
    /\ UNCHANGED <<detect_vars, trailer_vars, catcher_vars>>

\* lines 252-255: finally: remove the uploaded file if it exists
Finally ==
    /\ pc = "finally"
    /\ file_exists' = FALSE
    /\ pc' = "done"
    /\ UNCHANGED <<caller, request, video, persisted, h_moments, response,
                   reported, error>>
    /\ UNCHANGED <<detect_vars, trailer_vars, catcher_vars>>

-----------------------------------------------------------------------------
(* Specification of a whole upload: POST /upload, from the request on *)

Videos ==
    {v \in [openable : BOOLEAN, has_audio : BOOLEAN, n_samples : 0..MaxSamples,
            n_frames : 0..MaxFrames, fps4 : FpsQuarters, duration : VideoDurations,
            render_ok : BOOLEAN] :
        ~v.has_audio => v.n_samples = 0}

\* the state every run starts from, whatever the entry point
Fresh ==
    /\ cap_open = FALSE
    /\ subclips_open = 0
    /\ peaks = <<>>
    /\ top_peaks = <<>>
    /\ clips = <<>>
    /\ total_duration = 0
    /\ output_written = FALSE
    /\ gt_result = "none"
    /\ error = "none"
    /\ response = RESP_NONE
    /\ reported = <<>>

Init ==
    /\ Fresh
    /\ pc = "request"
    /\ caller = "upload_video"
    /\ dm_caller = "upload_video"
    /\ request \in {"no_file_part", "empty_filename", "ok"}
    /\ video \in Videos
    /\ file_exists = FALSE
    /\ persisted = FALSE
    /\ clip_open = FALSE
    /\ self_fps4 = 0
    /\ self_duration = 0
    /\ audio_features = EmptyShape
    /\ visual_features = EmptyShape
    /\ excitement_scores = <<>>
    /\ moments = <<>>
    /\ h_moments = <<>>
    /\ num_moments = DEFAULT_NUM_MOMENTS
    /\ moment_duration = DEFAULT_MOMENT_DURATION
    /\ max_duration = DEFAULT_MAX_DURATION
    /\ detect_calls = 0

Next ==
    \/ Validate
    \/ SaveFile
    \/ Construct
    \/ DM_Enter
    \/ ExtractAudio
    \/ VF_Open
    \/ VF_Read
    \/ VF_Release
    \/ Score
    \/ DM_Return
    \/ GT_Enter
    \/ GT_Assemble
    \/ GT_ReturnFalse
    \/ Close
    \/ Respond
    \/ Except
    \/ Finally

Spec == Init /\ [][Next]_vars

-----------------------------------------------------------------------------
(* Specification of detect_moments from line 148 on, for every excitement   *)
(* score sequence of a video without audio track: called by upload_video    *)
(* (default parameters, the run continues through generate_trailer and the  *)
(* response) or directly with given num_moments and moment_duration.        *)

InitScored ==
    /\ Fresh
    /\ pc = "find_peaks"
    /\ caller \in {"upload_video", "api"}
    /\ dm_caller = caller
    /\ request = "ok"
    /\ video \in {v \in [openable : {TRUE}, has_audio : {FALSE}, n_samples : {0},
                          n_frames : 1..MaxFrames, fps4 : ScoredFpsQuarters,
                          duration : VideoDurations, render_ok : BOOLEAN] :
                    /\ (v.duration * v.fps4) \div 4 > 0
                    /\ caller = "api" => v.render_ok}
    /\ file_exists = (caller = "upload_video")
    /\ persisted = (caller = "upload_video")
    /\ clip_open = TRUE
    /\ self_fps4 = video.fps4
    /\ self_duration = video.duration
    /\ audio_features = [rows |-> (video.duration * video.fps4) \div 4,
                         cols |-> FALLBACK_COLS]
    /\ visual_features = [rows |-> video.n_frames, cols |-> VISUAL_COLS]
    /\ excitement_scores \in [1..MinLen -> ScoreValues]
    /\ moments = <<>>
    /\ h_moments = <<>>
    /\ num_moments \in IF caller = "api" THEN 0..MaxNumMoments
                       ELSE {DEFAULT_NUM_MOMENTS}
    /\ moment_duration \in IF caller = "api" THEN MomentDurations
                           ELSE {DEFAULT_MOMENT_DURATION}
    /\ max_duration = DEFAULT_MAX_DURATION
    /\ detect_calls = 1

NextScored ==
    \/ FindPeaks
    \/ SelectTop
    \/ ConvertAndSort
    \/ DM_Return
    \/ GT_Enter
    \/ DM_Enter
    \/ ExtractAudio
    \/ VF_Open
    \/ VF_Read
    \/ VF_Release
    \/ Score
    \/ GT_Assemble
    \/ GT_Render
    \/ Close
    \/ Respond
    \/ Except
    \/ Finally

SpecScored == InitScored /\ [][NextScored]_vars

-----------------------------------------------------------------------------
(* Specification of generate_trailer for a given chronological moment list: *)
(* called by upload_video at line 237 (default budget, the run continues    *)
(* through the response) or directly with a given max_duration.             *)

RECURSIVE SeqOfSet(_)
SeqOfSet(S) ==
    IF S = {} THEN <<>>
    ELSE LET k == CHOOSE a \in S : \A b \in S : a <= b
         IN  <<k>> \o SeqOfSet(S \ {k})

\* moments starting at multiples of TrailerStep seconds, in ticks at 1 fps
TrailerMomentLists ==
    {LET pos == SeqOfSet(S)
     IN  [i \in 1..Len(pos) |->
            [start_time |-> Ticks(pos[i] * TrailerStep, 4),
             end_time   |-> Ticks(pos[i] * TrailerStep + len[pos[i]], 4),
             score      |-> 0]] :
        S \in SUBSET (0..(MaxMoments - 1)), len \in [0..(MaxMoments - 1) -> TrailerMomentLengths]}

InitTrailer ==
    /\ Fresh
    /\ pc = "generate"
    /\ caller \in {"upload_video", "api"}
    /\ dm_caller = caller
    /\ request = "ok"
    /\ video \in {[openable |-> TRUE, has_audio |-> FALSE, n_samples |-> 0,
                    n_frames |-> f, fps4 |-> 4,
                    duration |-> TrailerStep * MaxMoments, render_ok |-> r] :
                    f \in 0..1, r \in BOOLEAN}
    /\ file_exists = (caller = "upload_video")
    /\ persisted = (caller = "upload_video")
    /\ clip_open = TRUE
    /\ self_fps4 = video.fps4
    /\ self_duration = video.duration
    /\ audio_features = EmptyShape
    /\ visual_features = EmptyShape
    /\ excitement_scores = <<>>
    /\ moments \in TrailerMomentLists
    /\ h_moments = IF caller = "upload_video" THEN moments ELSE <<>>
    /\ num_moments = DEFAULT_NUM_MOMENTS
    /\ moment_duration = DEFAULT_MOMENT_DURATION
    /\ max_duration \in IF caller = "api" THEN TrailerBudgets
                        ELSE {DEFAULT_MAX_DURATION}
    /\ detect_calls = IF caller = "upload_video" THEN 1 ELSE 0

NextTrailer ==
    \/ GT_Enter
    \/ DM_Enter
    \/ ExtractAudio
    \/ VF_Open
    \/ VF_Read
    \/ VF_Release
    \/ Score
    \/ DM_Return
    \/ GT_Assemble
    \/ GT_Render
    \/ GT_ReturnFalse
    \/ Close
    \/ Respond
    \/ Except
    \/ Finally

SpecTrailer == InitTrailer /\ [][NextTrailer]_vars

-----------------------------------------------------------------------------
(* Claims *)

\* detect_moments is past line 146 with the features of this call
PastScoring == pc \notin {"detect", "extract_audio", "extract_visual",
                          "read_frames", "normalize"}

\* C1: whenever the audio and the visual feature sequences are both
\* non-empty, the scoring step completes (np.dot does not raise) and yields
\* one excitement score per aligned row, min(len(audio), len(visual)) scores,
\* for the 3-column audio features and for the 1-column fallback alike.
C1_OneScorePerAlignedRow ==
    (PastScoring /\ audio_features.rows > 0 /\ visual_features.rows > 0)
        => (error # ERR_SHAPE /\ Len(excitement_scores) = MinLen)

\* the first call of detect_moments has returned or is about to
Detected == pc = "dm_return" /\ detect_calls = 1

Assembled == pc = "after_loop" \/ gt_result # "none" \/ error = ERR_RENDER

RECURSIVE SumDur(_, _)
SumDur(ms, n) == IF n = 0 THEN 0 ELSE SumDur(ms, n - 1) + Duration(ms[n])

TenTenTen ==
    /\ Len(moments) = 3
    /\ \A i \in 1..3 : Duration(moments[i]) = Secs(10)
    /\ max_duration = 15

\* C4: generate_trailer admits exactly a prefix of the moment list: a moment
\* is admitted iff the summed duration of the moments admitted before it is
\* strictly below max_duration; so the total minus the last admitted moment's
\* duration is below max_duration, the last admitted moment is untrimmed, and
\* durations [10, 10, 10] with max_duration 15 admit exactly the first two.
C4_AdmitsPrefixUnderBudget ==
    Assembled =>
        /\ Len(clips) <= Len(moments)
        /\ clips = SubSeq(moments, 1, Len(clips))
        /\ \A i \in 1..Len(moments) :
              (i <= Len(clips)) <=>
                  (SumDur(moments, Min(i - 1, Len(clips))) < Secs(max_duration))
        /\ total_duration = SumDur(moments, Len(clips))
        /\ (clips # <<>> =>
              total_duration - Duration(clips[Len(clips)]) < Secs(max_duration))
        /\ (TenTenTen => Len(clips) = 2)

C4_Witness == Assembled /\ TenTenTen /\ Len(clips) = 2 /\ total_duration = Secs(20)

\* C5: if the admitted-moment list is empty (no moments detected, or
\* max_duration zero), generate_trailer returns False and writes no output
\* file, and upload_video then answers with the trailer-generation failure,
\* which differs from the response to an exception.
C5_EmptyTrailerReportsFailure ==
    /\ (Assembled /\ clips = <<>>) =>
          /\ ~output_written
          /\ gt_result # "True"
          /\ (pc # "after_loop" => gt_result = "False")
    /\ (pc = "done" /\ caller = "upload_video" /\ Assembled /\ clips = <<>>) =>
          (response = RESP_FAILED /\ response # RESP_CRASH)

C5_Witness ==
    /\ pc = "done" /\ caller = "upload_video"
    /\ Assembled /\ clips = <<>> /\ moments = <<>>
    /\ gt_result = "False" /\ response = RESP_FAILED /\ ~output_written

\* C5, the other case: a non-empty moment list with max_duration zero
C5_ZeroBudgetReached ==
    pc = "done" /\ max_duration = 0 /\ moments # <<>> /\ gt_result = "False"

\* C6: on every exit path of an upload run every handle the run opened has
\* been released when the run ends: the VideoFileClip, the frame-capture
\* handle, and the sub-clips created by generate_trailer.
C6_HandlesReleasedAtExit ==
    (pc = "done" /\ persisted) =>
        (~clip_open /\ ~cap_open /\ subclips_open = 0)

C8_UploadRemovedAtReturn ==
    (pc = "done" /\ persisted) => ~file_exists

C8_Witness ==
    pc = "done" /\ persisted /\ response = RESP_CRASH /\ ~file_exists

Spaced(ps) ==
    \A i, j \in DOMAIN ps : i # j => Abs(ps[i] - ps[j]) >= PeakDistance

\* C9: any two peaks selected by detect_moments are at least int(fps * 2)
\* windows apart, also after the top-num_moments selection and the sort by
\* start time: every returned moment is the interval of its own selected peak.
C9_PeaksSpaced ==
    /\ Spaced(peaks)
    /\ Spaced(top_peaks)
    /\ Detected =>
          /\ Len(moments) = IF peaks = <<>> THEN 0 ELSE Len(top_peaks)
          /\ \A i \in 1..Len(moments) :
                \E k \in 1..Len(top_peaks) : moments[i] = Moment(top_peaks[k])

C9_Witness ==
    /\ Detected
    /\ Len(moments) >= 2
    /\ PeakDistance >= 3

\* C9: the distance selection has removed a maximum that passed the height
C9_CloserPeakRemoved ==
    /\ Detected
    /\ PeakDistance >= 3
    /\ peaks # <<>>
    /\ Len(peaks) < Len(HeightCandidates(excitement_scores,
                          Percentile10(excitement_scores, HEIGHT_PERCENTILE)))

\* C10: within one run no stage is retried: feature extraction and moment
\* detection execute at most once, also when detection yields no moments.
C10_NoStageRetried == detect_calls <= 1

====
